---- MODULE Spec2Model ----
(***************************************************************************)
(* Token-data aggregation and caching layer of the trading bot             *)
(* (bot/utils/token_data.py): fetch_token_data, get_sol_price and the      *)
(* module-level TTLCache hybrid_token_data_cache.                          *)
(*                                                                         *)
(* Conventions.                                                            *)
(*  - A Python str that the code lowercases (an address) is a sequence of  *)
(*    one-character strings; every other str is a TLA+ string.             *)
(*  - A parsed JSON value is a tagged record: [t |-> "num", v |-> n],      *)
(*    [t |-> "str", v |-> s], [t |-> "null"], [t |-> "obj", v |-> record], *)
(*    [t |-> "list", v |-> sequence].  A key a dict lacks is a key absent  *)
(*    from DOMAIN v.                                                       *)
(*  - A float is kept as its count of hundredths (150.0 is 15000), except  *)
(*    the result of round(x, 4), kept as its count of ten-thousandths.     *)
(*  - A coroutine runs atomically between two awaits (asyncio), so there   *)
(*    is one action per stretch of code between awaits.                    *)
(***************************************************************************)
EXTENDS Integers, Sequences, FiniteSets, TLC

\* ---------------------------------------------------------------- bounds
\* Highest value of the clock.
MaxTime == 3
\* Longest pairs list the provider returns in the wide-input specification.
MaxPairs == 3
\* TTLCache(maxsize=500, ttl=300), scaled down.
maxsize == 2
ttl == 2

Tasks == {"t1", "t2"}

\* ------------------------------------------------------------- str.lower
ToLower == ("A" :> "a") @@ ("B" :> "b") @@ ("Q" :> "q")

LowerChar(c) == IF c \in DOMAIN ToLower THEN ToLower[c] ELSE c

\* str.lower(): character by character.
Lower(s) == [i \in DOMAIN s |-> LowerChar(s[i])]

\* ------------------------------------------------------------------ JSON
Num(n) == [t |-> "num", v |-> n]
Str(s) == [t |-> "str", v |-> s]
Null == [t |-> "null"]
Obj(r) == [t |-> "obj", v |-> r]
List(s) == [t |-> "list", v |-> s]

\* Placeholder of a local variable that is not bound.
Unbound == [t |-> "unbound"]

IsObj(j) == j.t = "obj"

\* Decimal literals a provider sends as strings, as counts of hundredths.
DecimalText ==
    ("0" :> 0) @@ ("0.05" :> 5) @@ ("0.03" :> 3) @@ ("150" :> 15000)
    @@ ("-0.05" :> -5)

\* float(j) returns (does not raise TypeError / ValueError).
FloatOk(j) == \/ j.t = "num"
              \/ j.t = "str" /\ j.v \in DOMAIN DecimalText

float(j) == IF j.t = "num" THEN j.v ELSE DecimalText[j.v]

\* float(p.get(k, 0)) for a dict p.
TopFloatOk(p, k) == k \in DOMAIN p.v => FloatOk(p.v[k])

TopFloat(p, k) == IF k \in DOMAIN p.v THEN float(p.v[k]) ELSE 0

\* float(p.get(k1, {}).get(k2, 0)) for a dict p.
NestedFloatOk(p, k1, k2) ==
    k1 \in DOMAIN p.v =>
        /\ IsObj(p.v[k1])
        /\ k2 \in DOMAIN p.v[k1].v => FloatOk(p.v[k1].v[k2])

NestedFloat(p, k1, k2) ==
    IF k1 \in DOMAIN p.v /\ k2 \in DOMAIN p.v[k1].v
    THEN float(p.v[k1].v[k2])
    ELSE 0

\* bool(j) of a parsed JSON value.
Truthy(j) == CASE j.t = "null" -> FALSE
               [] j.t = "list" -> j.v # <<>>
               [] j.t = "num" -> j.v # 0
               [] j.t = "str" -> j.v # ""
               [] OTHER -> TRUE

\* ------------------------------------------------------ fetch_token_data
\* The key of sorted(): float(p.get("liquidity", {}).get("usd", 0)).
LiquidityKeyOk(p) == IsObj(p) /\ NestedFloatOk(p, "liquidity", "usd")

LiquidityKey(p) == NestedFloat(p, "liquidity", "usd")

\* As InsertDesc, but p goes before the elements of its own key.
InsertDescUnstable(s, p) ==
    LET n == Cardinality({i \in DOMAIN s : LiquidityKey(s[i]) > LiquidityKey(p)})
    IN SubSeq(s, 1, n) \o <<p>> \o SubSeq(s, n + 1, Len(s))

\* One insertion of a stable descending sort: p goes behind every element
\* whose key is not smaller.
InsertDesc(s, p) ==
    LET n == Cardinality({i \in DOMAIN s : LiquidityKey(s[i]) >= LiquidityKey(p)})
    IN SubSeq(s, 1, n) \o <<p>> \o SubSeq(s, n + 1, Len(s))

RECURSIVE SortedDesc(_)
\* sorted(pairs, key=..., reverse=True): stable, equal keys keep their order.
SortedDesc(s) ==
    IF s = <<>> THEN <<>>
    ELSE InsertDesc(SortedDesc(SubSeq(s, 1, Len(s) - 1)), s[Len(s)])

\* data.get("pairs") is there and truthy (else ValueError("No pairs found"));
\* data is a dict (else AttributeError).
HasPairs(d) == /\ IsObj(d)
               /\ "pairs" \in DOMAIN d.v
               /\ Truthy(d.v.pairs)

\* sorted(data["pairs"], ...) returns: the value is a list and the key
\* function returns for each of its elements.
SortOk(d) == /\ d.v.pairs.t = "list"
             /\ \A i \in DOMAIN d.v.pairs.v : LiquidityKeyOk(d.v.pairs.v[i])

\* sorted(...)[0]
BestPair(d) == SortedDesc(d.v.pairs.v)[1]

\* pair["baseToken"]["address"].lower() returns.
IsBaseOk(p) == /\ "baseToken" \in DOMAIN p.v
               /\ IsObj(p.v.baseToken)
               /\ "address" \in DOMAIN p.v.baseToken.v
               /\ p.v.baseToken.v.address.t = "str"

is_base(p, address) == Lower(p.v.baseToken.v.address.v) = Lower(address)

\* pair["baseToken"] if is_base else pair["quoteToken"] returns.
TokenInfoOk(p, address) == is_base(p, address) \/ "quoteToken" \in DOMAIN p.v

\* As TokenInfo, but the base side whatever the address.
TokenInfoBase(p, address) == p.v.baseToken

TokenInfo(p, address) ==
    IF is_base(p, address) THEN p.v.baseToken ELSE p.v.quoteToken

\* Lines 47-58 complete without an exception.
SelectOk(d, address) ==
    /\ HasPairs(d)
    /\ SortOk(d)
    /\ IsBaseOk(BestPair(d))
    /\ TokenInfoOk(BestPair(d), address)

\* n / d rounded to the nearest integer, ties to even (d > 0).
RoundHalfEven(n, d) ==
    LET q == n \div d
        r == n % d
    IN IF 2 * r < d THEN q
       ELSE IF 2 * r > d THEN q + 1
       ELSE IF q % 2 = 0 THEN q ELSE q + 1

\* round(sol_price / price_usd if price_usd > 0 else 0, 4),
\* in ten-thousandths.
tokens_per_sol(sol_price, price_usd) ==
    IF price_usd > 0 THEN RoundHalfEven(sol_price * 10000, price_usd) ELSE 0

\* Lines 61-79 complete without an exception.
ResultOk(p, info) ==
    /\ TopFloatOk(p, "priceUsd")
    /\ IsObj(info)
    /\ "dexId" \in DOMAIN p.v
    /\ NestedFloatOk(p, "priceChange", "h24")
    /\ NestedFloatOk(p, "liquidity", "usd")
    /\ NestedFloatOk(p, "volume", "h24")
    /\ TopFloatOk(p, "marketCap")
    /\ TopFloatOk(p, "fdv")
    /\ "url" \in DOMAIN p.v

\* info.get(k, default)
Get(info, k, default) == IF k \in DOMAIN info.v THEN info.v[k] ELSE default

SolscanUrl(address) == <<"https://solscan.io/token/">> \o address

\* The result dict of lines 64-79.
Result(address, p, info, sol_price) ==
    [address |-> address,
     name |-> Get(info, "name", Str("Unknown")),
     symbol |-> Get(info, "symbol", Str("???")),
     decimals |-> Get(info, "decimals", Num(9)),
     dex |-> p.v.dexId,
     price_usd |-> TopFloat(p, "priceUsd"),
     price_change_h24 |-> NestedFloat(p, "priceChange", "h24"),
     liquidity_usd |-> NestedFloat(p, "liquidity", "usd"),
     volume_h24 |-> NestedFloat(p, "volume", "h24"),
     market_cap |-> TopFloat(p, "marketCap"),
     fdv |-> TopFloat(p, "fdv"),
     buy_1_sol_tokens |-> tokens_per_sol(sol_price, TopFloat(p, "priceUsd")),
     dexscreener_url |-> p.v.url,
     solscan_url |-> SolscanUrl(address)]

\* The dict the except branch returns (lines 86-94).
Fallback(address) ==
    [address |-> address,
     name |-> Str("Unknown"),
     symbol |-> Str("???"),
     price_usd |-> 0,
     liquidity_usd |-> 0,
     volume_h24 |-> 0,
     warning |-> "Data unavailable - check manually on DexScreener"]

\* --------------------------------------------------------- get_sol_price
\* The fallback of get_sol_price, 138.0.
SolFallback == 13800

\* float(data['data']['SOL']['price']) returns for the parsed body d.
SolPriceOk(d) ==
    /\ IsObj(d) /\ "data" \in DOMAIN d.v
    /\ IsObj(d.v.data) /\ "SOL" \in DOMAIN d.v.data.v
    /\ IsObj(d.v.data.v.SOL) /\ "price" \in DOMAIN d.v.data.v.SOL.v
    /\ FloatOk(d.v.data.v.SOL.v.price)

\* What get_sol_price returns when its request ends with outcome o: the
\* parsed price, or the fallback on any exception.  The status of the
\* response is not looked at.
get_sol_price(o) ==
    IF o.kind = "response" /\ o.body.kind = "json" /\ SolPriceOk(o.body.data)
    THEN float(o.body.data.v.data.v.SOL.v.price)
    ELSE SolFallback

\* ------------------------------------------------------------------ state
VARIABLES
    hybrid_token_data_cache, \* the TTLCache: [data, links]
    now,             \* the cache's timer
    expire_on_ttl,   \* the installed cachetools drops an entry at the
                     \* instant of its expiry (5.0 and later) or only
                     \* after it (earlier versions)
    pc,              \* per task: where its fetch_token_data call stands
    contract_address,\* per task: the argument of the call
    data,            \* per task: the parsed body of the provider's response
    pair,            \* per task: the selected pair
    token_info,      \* per task: the selected side of the pair
    calls,           \* per task: cache reads, upstream calls and cache
                     \* writes of the call so far
    returned,        \* how the step just taken ended a call, if it did
    last_used        \* the keys used so far (a lookup that hit, or a
                     \* write), in the order of their last use

vars == <<hybrid_token_data_cache, now, expire_on_ttl, pc, contract_address, data, pair,
          token_info, calls, returned, last_used>>

NoCalls == [cache_reads |-> 0, market |-> 0, oracle |-> 0, cache_writes |-> 0]

\* The step just taken ended no call.
NoReturn == [kind |-> "none"]

\* The call fetch_token_data(address) returned value, after n reads, calls
\* and writes; logged is the exception logger.error reported, if any.
Return(address, value, n, logged) ==
    [kind |-> "return", address |-> address, value |-> value, calls |-> n,
     logged |-> logged]

\* The call fetch_token_data(address) raised e to its caller.
Raise(address, n, e) ==
    [kind |-> "raise", address |-> address, calls |-> n, logged |-> e]

\* The exceptions of the except branch: the two the code raises itself,
\* and any other.
NoException == [text |-> "none"]

StatusError(status) == [text |-> "DexScreener returned", status |-> status]

NoPairsFound == [text |-> "No pairs found"]

OtherException == [text |-> "other"]

\* ------------------------------------------------- cachetools.TTLCache
\* data: key -> [value, expires]; links: the keys, least recently used
\* first.
EmptyCache == [data |-> [k \in {} |-> NoReturn], links |-> <<>>]

\* As Expired, but the ttl is ignored: an entry never expires.
ExpiredNever(e, time) == FALSE

\* An entry's time is up at `time`: not (timer() < link.expires) in
\* cachetools 5.0 and later, link.expire < timer() before.
Expired(e, time) ==
    IF expire_on_ttl THEN ~(time < e.expires) ELSE e.expires < time

\* TTLCache.__contains__
Contains(c, key, time) ==
    key \in DOMAIN c.data /\ ~Expired(c.data[key], time)

MoveToEnd(links, key) == SelectSeq(links, LAMBDA k : k # key) \o <<key>>

\* As AfterGet, but a hit does not refresh the key.
AfterGetNoRefresh(c, key, time) == c

\* The cache after Cache.get(key): a hit moves the key to the
\* most-recently-used end; a miss changes nothing (a stale entry stays).
AfterGet(c, key, time) ==
    IF Contains(c, key, time)
    THEN [c EXCEPT !.links = MoveToEnd(c.links, key)]
    ELSE c

\* TTLCache.expire(time): drops every entry whose time is up.
Expire(c, time) ==
    LET keep == {k \in DOMAIN c.data : ~Expired(c.data[k], time)}
    IN [data |-> [k \in keep |-> c.data[k]],
        links |-> SelectSeq(c.links, LAMBDA k : k \in keep)]

\* TTLCache.popitem() once nothing is expired: drops the least recently
\* used key.
PopItem(c) ==
    LET lru == Head(c.links)
    IN [data |-> [k \in DOMAIN c.data \ {lru} |-> c.data[k]],
        links |-> Tail(c.links)]

\* As MakeRoom, but an entry is dropped as soon as the new one fills the
\* cache.
MakeRoomEarly(c) ==
    IF Cardinality(DOMAIN c.data) + 1 >= maxsize /\ c.links # <<>>
    THEN PopItem(c)
    ELSE c

RECURSIVE MakeRoom(_)
\* Cache.__setitem__: while currsize + size > maxsize: self.popitem()
MakeRoom(c) ==
    IF Cardinality(DOMAIN c.data) + 1 > maxsize THEN MakeRoom(PopItem(c)) ELSE c

\* As SetItem, but a key that is stored and alive keeps its entry.
SetItemIfAbsent(c, key, value, time) ==
    LET live == Expire(c, time)
        room == MakeRoom(live)
    IN IF key \in DOMAIN live.data THEN live
       ELSE [data |-> [k \in DOMAIN room.data \cup {key} |->
                         IF k = key
                         THEN [value |-> value, expires |-> time + ttl]
                         ELSE room.data[k]],
             links |-> MoveToEnd(room.links, key)]

\* TTLCache.__setitem__(key, value) at `time`.
SetItem(c, key, value, time) ==
    LET live == Expire(c, time)
        room == IF key \in DOMAIN live.data THEN live ELSE MakeRoom(live)
    IN [data |-> [k \in DOMAIN room.data \cup {key} |->
                    IF k = key
                    THEN [value |-> value, expires |-> time + ttl]
                    ELSE room.data[k]],
        links |-> MoveToEnd(room.links, key)]

\* ---------------------------------------------------------------- actions
\* The order of last use once key was used: key is the most recent.
Used(order, key) == SelectSeq(order, LAMBDA k : k # key) \o <<key>>

Init ==
    /\ hybrid_token_data_cache = EmptyCache
    /\ now = 0
    /\ expire_on_ttl \in BOOLEAN
    /\ pc = [t \in Tasks |-> "idle"]
    /\ contract_address = [t \in Tasks |-> <<>>]
    /\ data = [t \in Tasks |-> Unbound]
    /\ pair = [t \in Tasks |-> Unbound]
    /\ token_info = [t \in Tasks |-> Unbound]
    /\ calls = [t \in Tasks |-> NoCalls]
    /\ returned = NoReturn
    /\ last_used = <<>>

\* The frame of the call of task t is gone.
Finish(t) ==
    /\ pc' = [pc EXCEPT ![t] = "idle"]
    /\ contract_address' = [contract_address EXCEPT ![t] = <<>>]
    /\ data' = [data EXCEPT ![t] = Unbound]
    /\ pair' = [pair EXCEPT ![t] = Unbound]
    /\ token_info' = [token_info EXCEPT ![t] = Unbound]
    /\ calls' = [calls EXCEPT ![t] = NoCalls]

\* As HandleException, but the exception leaves the call.
HandleExceptionReraise(t, e) ==
    /\ returned' = Raise(contract_address[t], calls[t], e)
    /\ Finish(t)
    /\ UNCHANGED <<hybrid_token_data_cache, now, expire_on_ttl, last_used>>

\* As HandleException, but the fallback dict is written to the cache.
HandleExceptionCaching(t, e) ==
    /\ returned' = Return(contract_address[t],
                          Fallback(contract_address[t]), calls[t], e)
    /\ hybrid_token_data_cache' =
           SetItem(hybrid_token_data_cache, Lower(contract_address[t]),
                   Fallback(contract_address[t]), now)
    /\ last_used' = Used(last_used, Lower(contract_address[t]))
    /\ Finish(t)
    /\ UNCHANGED <<now, expire_on_ttl>>

\* As HandleException, but the request to the provider is sent again.
HandleExceptionRetry(t, e) ==
    /\ pc' = [pc EXCEPT ![t] = "http"]
    /\ returned' = NoReturn
    /\ UNCHANGED <<hybrid_token_data_cache, now, expire_on_ttl,
                   contract_address, data, pair, token_info, calls,
                   last_used>>

\* Lines 84-94: the except branch catches e, logs it, and the call returns
\* the fallback dict.
HandleException(t, e) ==
    /\ returned' = Return(contract_address[t],
                          Fallback(contract_address[t]), calls[t], e)
    /\ Finish(t)
    /\ UNCHANGED <<hybrid_token_data_cache, now, expire_on_ttl, last_used>>

\* Lines 34-41 once the lookup has hit or missed: a hit returns the cached
\* dict, a miss sends the request to the provider.
Lookup(t, address, hit) ==
    LET cache_key == Lower(address)
    IN /\ pc[t] = "idle"
       /\ hybrid_token_data_cache' =
              AfterGet(hybrid_token_data_cache, cache_key, now)
       /\ IF hit
          THEN /\ returned' =
                      Return(address,
                             hybrid_token_data_cache.data[cache_key].value,
                             [NoCalls EXCEPT !.cache_reads = @ + 1],
                             NoException)
               /\ last_used' = Used(last_used, cache_key)
               /\ UNCHANGED <<pc, contract_address, calls>>
          ELSE /\ pc' = [pc EXCEPT ![t] = "http"]
               /\ contract_address' = [contract_address EXCEPT ![t] = address]
               /\ calls' = [calls EXCEPT ![t] =
                              [NoCalls EXCEPT !.cache_reads = @ + 1,
                                              !.market = @ + 1]]
               /\ returned' = NoReturn
               /\ UNCHANGED last_used
       /\ UNCHANGED <<now, expire_on_ttl, data, pair, token_info>>

\* As FetchStart, but the cache is not looked at.
FetchStartRefetch(t, address) == Lookup(t, address, FALSE)

\* As FetchStart, but a call waits while another call for its key is under
\* way.
FetchStartSingleFlight(t, address) ==
    /\ \A u \in Tasks :
          pc[u] # "idle" => Lower(contract_address[u]) # Lower(address)
    /\ Lookup(t, address,
              Contains(hybrid_token_data_cache, Lower(address), now))

\* Lines 34-41: a caller calls fetch_token_data(address):
\* hybrid_token_data_cache.get(cache_key) hits or misses.
FetchStart(t, address) ==
    Lookup(t, address,
           Contains(hybrid_token_data_cache, Lower(address), now))

\* Lines 41-45: session.get(url, timeout=10) ends with outcome o: an
\* exception (transport error, timeout) or a response with a status.
HttpResponse(t, o) ==
    /\ pc[t] = "http"
    /\ IF o.kind = "response" /\ o.status = 200
       THEN /\ pc' = [pc EXCEPT ![t] = "json"]
            /\ returned' = NoReturn
            /\ UNCHANGED <<hybrid_token_data_cache, now, expire_on_ttl,
                           contract_address,
                           data, pair, token_info, calls, last_used>>
       ELSE HandleException(t, IF o.kind = "response"
                               THEN StatusError(o.status)
                               ELSE OtherException)

\* As JsonBody, but get_sol_price is called as soon as the body is read,
\* before the pairs are looked at.
JsonBodyPriceFirst(t, b) ==
    /\ pc[t] = "json"
    /\ IF b.kind = "json" /\ SelectOk(b.data, contract_address[t])
       THEN /\ pc' = [pc EXCEPT ![t] = "oracle"]
            /\ data' = [data EXCEPT ![t] = b.data]
            /\ pair' = [pair EXCEPT ![t] = BestPair(b.data)]
            /\ token_info' = [token_info EXCEPT ![t] =
                                TokenInfo(BestPair(b.data), contract_address[t])]
            /\ calls' = [calls EXCEPT ![t].oracle = @ + 1]
            /\ returned' = NoReturn
            /\ UNCHANGED <<hybrid_token_data_cache, now, expire_on_ttl,
                           contract_address, last_used>>
       ELSE /\ returned' =
                   Return(contract_address[t], Fallback(contract_address[t]),
                          [calls[t] EXCEPT !.oracle =
                              IF b.kind = "json" THEN @ + 1 ELSE @],
                          IF b.kind = "json" /\ IsObj(b.data)
                             /\ ~HasPairs(b.data)
                          THEN NoPairsFound
                          ELSE OtherException)
            /\ Finish(t)
            /\ UNCHANGED <<hybrid_token_data_cache, now, expire_on_ttl,
                           last_used>>

\* Lines 45-60: resp.json() ends with outcome b: an exception or the parsed
\* body.  The pair and its side are selected and get_sol_price is called.
JsonBody(t, b) ==
    /\ pc[t] = "json"
    /\ IF b.kind = "json" /\ SelectOk(b.data, contract_address[t])
       THEN /\ pc' = [pc EXCEPT ![t] = "oracle"]
            /\ data' = [data EXCEPT ![t] = b.data]
            /\ pair' = [pair EXCEPT ![t] = BestPair(b.data)]
            /\ token_info' = [token_info EXCEPT ![t] =
                                TokenInfo(BestPair(b.data), contract_address[t])]
            /\ calls' = [calls EXCEPT ![t].oracle = @ + 1]
            /\ returned' = NoReturn
            /\ UNCHANGED <<hybrid_token_data_cache, now, expire_on_ttl,
                           contract_address,
                           last_used>>
       ELSE HandleException(t, IF b.kind = "json" /\ IsObj(b.data)
                                  /\ ~HasPairs(b.data)
                               THEN NoPairsFound
                               ELSE OtherException)

\* Lines 60-82: get_sol_price returns for the outcome o of its request; the
\* result dict is built, written to the cache and returned.
OracleResponse(t, o) ==
    /\ pc[t] = "oracle"
    /\ IF ResultOk(pair[t], token_info[t])
       THEN LET result == Result(contract_address[t], pair[t], token_info[t],
                                 get_sol_price(o))
                cache_key == Lower(contract_address[t])
            IN /\ hybrid_token_data_cache' =
                      SetItem(hybrid_token_data_cache, cache_key, result, now)
               /\ returned' = Return(contract_address[t], result,
                                     [calls[t] EXCEPT !.cache_writes = @ + 1],
                                     NoException)
               /\ last_used' = Used(last_used, cache_key)
               /\ Finish(t)
               /\ UNCHANGED <<now, expire_on_ttl>>
       ELSE HandleException(t, OtherException)

\* The timer advances.
Tick ==
    /\ now < MaxTime
    /\ now' = now + 1
    /\ returned' = NoReturn
    /\ UNCHANGED <<hybrid_token_data_cache, expire_on_ttl, pc,
                   contract_address, data, pair,
                   token_info, calls, last_used>>

\* ----------------------------------------------------------------- inputs
\* The addresses callers ask for: two casings of one key, and a second key.
Addresses == {<<"a", "b">>, <<"A", "b">>, <<"c", "d">>}

\* Addresses of distinct keys.
AddressPool == <<<<"A", "b">>, <<"c", "d">>, <<"q", "q">>, <<"e", "f">>>>

\* One key more than the cache holds.
SoloAddresses == {AddressPool[i] : i \in 1..(maxsize + 1)}

\* Both casings, the address of the quote side, and one of neither side.
WideAddresses == Addresses \cup {<<"q", "q">>}

Without(r, k) == [x \in DOMAIN r \ {k} |-> r[x]]

With(r, k, val) == [x \in DOMAIN r \cup {k} |-> IF x = k THEN val ELSE r[x]]

Token(address, name, symbol) ==
    Obj([address |-> Str(address), name |-> Str(name),
         symbol |-> Str(symbol), decimals |-> Num(6)])

BaseTok == Token(<<"A", "B">>, "Alpha", "ALP")

QuoteTok == Token(<<"Q", "q">>, "Quote", "QUO")

\* The fields of a well-formed pair of the provider.
PairFields(liq, dex, price) ==
    [baseToken |-> BaseTok,
     quoteToken |-> QuoteTok,
     liquidity |-> Obj([usd |-> Num(liq), base |-> Num(1)]),
     priceUsd |-> Str(price),
     priceChange |-> Obj([h24 |-> Num(-150)]),
     volume |-> Obj([h24 |-> Num(70000)]),
     marketCap |-> Num(900000),
     fdv |-> Num(950000),
     dexId |-> Str(dex),
     url |-> Str("https://dexscreener.com/solana/pair")]

Pair(liq, dex, price) == Obj(PairFields(liq, dex, price))

P0 == PairFields(1000, "raydium", "0.05")

\* Pairs on which lines 47-58 raise.
EarlyFaultyPairs ==
    {Null,
     Obj(With(P0, "liquidity", Null)),
     Obj(With(P0, "liquidity", Obj([usd |-> Null]))),
     Obj(With(P0, "liquidity", Obj([usd |-> Str("n/a")]))),
     Obj(Without(P0, "baseToken")),
     Obj(With(P0, "baseToken", Null)),
     Obj(With(P0, "baseToken", Obj([name |-> Str("Alpha")]))),
     Obj(With(P0, "baseToken", Obj([address |-> Null])))}

\* Pairs on which lines 61-79 raise, after get_sol_price was called (the
\* last one when the quote side is selected).
LateFaultyPairs ==
    {Obj(Without(P0, "dexId")),
     Obj(Without(P0, "url")),
     Obj(With(P0, "priceUsd", Null)),
     Obj(With(P0, "priceUsd", Str("n/a"))),
     Obj(With(P0, "priceChange", Null)),
     Obj(With(P0, "volume", Obj([h24 |-> Null]))),
     Obj(With(P0, "marketCap", Str("n/a"))),
     Obj(With(P0, "fdv", Null)),
     Obj(With(P0, "quoteToken", Null))}

\* Well-formed pairs that lack optional fields.
SparsePairs ==
    {Obj(With(P0, "baseToken", Obj([address |-> Str(<<"a", "b">>)]))),
     Obj(Without(P0, "quoteToken")),
     Obj(Without(P0, "priceUsd")),
     Obj(With(P0, "priceUsd", Num(0))),
     Obj(Without(P0, "priceChange")),
     Obj(With(P0, "volume", Obj([m5 |-> Num(1)]))),
     Obj(Without(Without(P0, "marketCap"), "fdv"))}

\* Pairs with unusual prices: a negative one, and one that does not divide
\* the price of SOL evenly.
PricePairs ==
    {Obj(With(P0, "priceUsd", Str("-0.05"))),
     Obj(With(P0, "priceUsd", Num(7)))}

\* Pairs whose sides differ: the quote side has the base side's address in
\* another casing; the two sides are swapped.
SidePairs ==
    {Obj(With(P0, "quoteToken", Token(<<"a", "B">>, "Twin", "TWN"))),
     Obj(With(With(P0, "baseToken", QuoteTok), "quoteToken", BaseTok))}

\* Pairs that differ in liquidity and venue: no liquidity, a liquidity
\* without usd, and three amounts, two of them on both venues.
LiqPairs ==
    {Obj(Without(PairFields(0, "raydium", "0.05"), "liquidity")),
     Obj(With(PairFields(0, "orca", "0.05"), "liquidity", Obj([base |-> Num(1)]))),
     Pair(10, "raydium", "0.05")}
    \cup {Pair(liq, dex, "0.05") :
            liq \in {300, 500}, dex \in {"raydium", "orca"}}

\* The sequences over S of length 1 to n.
SeqsUpTo(S, n) == UNION {[1..m -> S] : m \in 1..n}

Body(d) == [kind |-> "json", data |-> d]

Pairs(s) == Obj([schemaVersion |-> Str("1.0.0"), pairs |-> List(s)])

\* Outcomes of resp.json() that end in the except branch before
\* get_sol_price is called: an exception while reading (transport error,
\* timeout), a body that does not parse, a body without usable pairs.
EarlyFaultyBodies ==
    {[kind |-> "error"], [kind |-> "timeout"], [kind |-> "invalid"],
     Body(Null),
     Body(List(<<>>)),
     Body(Obj([schemaVersion |-> Str("1.0.0")])),
     Body(Obj([schemaVersion |-> Str("1.0.0"), pairs |-> Null])),
     Body(Pairs(<<>>)),
     Body(Obj([schemaVersion |-> Str("1.0.0"), pairs |-> Str("none")]))}
    \cup {Body(Pairs(<<p>>)) : p \in EarlyFaultyPairs}
    \cup {Body(Pairs(<<Obj(P0), p>>)) : p \in EarlyFaultyPairs}

\* The provider's answers of the specifications with several calls: one of
\* each kind.
Bodies ==
    {[kind |-> "error"], [kind |-> "invalid"],
     Body(Obj([schemaVersion |-> Str("1.0.0")])),
     Body(Obj([schemaVersion |-> Str("1.0.0"), pairs |-> Null])),
     Body(Pairs(<<>>)),
     Body(Pairs(<<Obj(P0), Obj(With(P0, "liquidity", Null))>>)),
     Body(Pairs(<<Pair(10, "raydium", "0.05"), Pair(500, "orca", "0.03")>>)),
     Body(Pairs(<<Obj(Without(P0, "dexId"))>>))}

\* Outcomes of session.get: an exception, or a response with its status.
HttpOutcomes ==
    {[kind |-> "error"], [kind |-> "timeout"],
     [kind |-> "response", status |-> 200],
     [kind |-> "response", status |-> 500]}

SolBody(price) == Body(Obj([data |-> Obj([SOL |-> Obj([price |-> price])])]))

\* Outcomes of the request of get_sol_price.
OracleOutcomes ==
    {[kind |-> "error"], [kind |-> "timeout"],
     [kind |-> "response", status |-> 200, body |-> [kind |-> "invalid"]],
     [kind |-> "response", status |-> 200, body |-> SolBody(Num(15000))],
     [kind |-> "response", status |-> 200, body |-> SolBody(Str("150"))],
     [kind |-> "response", status |-> 200, body |-> SolBody(Null)],
     [kind |-> "response", status |-> 200,
      body |-> Body(Obj([data |-> Obj([ETH |-> Obj([price |-> Num(1)])])]))],
     [kind |-> "response", status |-> 200, body |-> Body(Obj([error |-> Str("x")]))],
     [kind |-> "response", status |-> 500, body |-> [kind |-> "invalid"]],
     [kind |-> "response", status |-> 500, body |-> SolBody(Num(15000))]}

\* One outcome of the request of get_sol_price of each kind: a failure, a
\* price, and a price under a status other than 200.
OracleKinds ==
    {o \in OracleOutcomes :
        \/ o.kind = "error"
        \/ o.kind = "response" /\ o.body = SolBody(Num(15000))}

\* --------------------------------------------------------- specifications
\* Any number of callers, any interleaving at the awaits; two casings of
\* one address and a second address.
Next ==
    \/ \E t \in Tasks, a \in Addresses : FetchStart(t, a)
    \/ \E t \in Tasks, o \in HttpOutcomes : HttpResponse(t, o)
    \/ \E t \in Tasks, b \in Bodies : JsonBody(t, b)
    \/ \E t \in Tasks, o \in OracleKinds : OracleResponse(t, o)
    \/ Tick

Spec == Init /\ [][Next]_vars

\* No call for a key is in flight.
KeyFree(key) ==
    \A t \in Tasks : pc[t] # "idle" => Lower(contract_address[t]) # key

\* As Spec, but the calls for one key do not overlap in time.
NextNoOverlap ==
    \/ \E t \in Tasks, a \in Addresses : KeyFree(Lower(a)) /\ FetchStart(t, a)
    \/ \E t \in Tasks, o \in HttpOutcomes : HttpResponse(t, o)
    \/ \E t \in Tasks, b \in Bodies : JsonBody(t, b)
    \/ \E t \in Tasks, o \in OracleOutcomes : OracleResponse(t, o)
    \/ Tick

SpecNoOverlap == Init /\ [][NextNoOverlap]_vars

\* The outcomes of the request of get_sol_price while the price feed is down.
OracleDown == {o \in OracleOutcomes : get_sol_price(o) = SolFallback}

\* One caller, one call at a time; one address more than the cache holds
\* keys; the price feed down.
NextSolo ==
    \/ \E a \in SoloAddresses : FetchStart("t1", a)
    \/ \E o \in HttpOutcomes : HttpResponse("t1", o)
    \/ \E b \in Bodies : JsonBody("t1", b)
    \/ \E o \in OracleDown : OracleResponse("t1", o)
    \/ Tick

SpecSolo == Init /\ [][NextSolo]_vars

\* The first call of the process.
Fresh == hybrid_token_data_cache = EmptyCache /\ returned = NoReturn

\* The provider's answers of the wide specification.
BodiesWide ==
    EarlyFaultyBodies
    \cup {Body(Pairs(l)) : l \in SeqsUpTo(LiqPairs, MaxPairs)}
    \cup {Body(Pairs(<<p>>)) : p \in SidePairs \cup SparsePairs \cup LateFaultyPairs}
    \cup {Body(Pairs(<<p>>)) : p \in PricePairs}

\* One call on the empty cache, against every answer of the provider.
NextWide ==
    \/ \E a \in WideAddresses : Fresh /\ FetchStart("t1", a)
    \/ \E o \in HttpOutcomes : HttpResponse("t1", o)
    \/ \E b \in BodiesWide : JsonBody("t1", b)
    \/ \E o \in OracleOutcomes : OracleResponse("t1", o)

SpecWide == Init /\ [][NextWide]_vars

\* Every request under way ends: session.get(url, timeout=10) of the
\* provider and the session of get_sol_price (aiohttp's default total
\* timeout) respond, fail or time out after a bounded wait.
Responsive(t) ==
    /\ WF_vars(\E o \in HttpOutcomes : HttpResponse(t, o))
    /\ WF_vars(\E b \in Bodies : JsonBody(t, b))
    /\ WF_vars(\E o \in OracleOutcomes : OracleResponse(t, o))

\* The calls of Spec at one instant of the timer.
NextLive ==
    \/ \E t \in Tasks, a \in Addresses : FetchStart(t, a)
    \/ \E t \in Tasks, o \in HttpOutcomes : HttpResponse(t, o)
    \/ \E t \in Tasks, b \in Bodies : JsonBody(t, b)
    \/ \E t \in Tasks, o \in OracleOutcomes : OracleResponse(t, o)

\* Any number of callers, with the bounded waits of the upstream requests.
SpecLive == Init /\ [][NextLive]_vars /\ \A t \in Tasks : Responsive(t)

\* ----------------------------------------------------------------- claims
\* The keys of the dict a successful call builds (lines 64-79).
SuccessFields ==
    {"address", "name", "symbol", "decimals", "dex", "price_usd",
     "price_change_h24", "liquidity_usd", "volume_h24", "market_cap", "fdv",
     "buy_1_sol_tokens", "dexscreener_url", "solscan_url"}

IsSuccessRecord(r) == DOMAIN r = SuccessFields

IsDegradedRecord(r) == "warning" \in DOMAIN r /\ r.warning # ""

Degraded(ev) == ev.kind = "return" /\ "warning" \in DOMAIN ev.value

\* C1: whatever the address and whatever the outcome of each upstream
\* request, a call never raises to its caller: when it ends, it has
\* returned a dict, the success dict or the fallback dict with its warning.
C1_NeverRaises ==
    /\ returned.kind # "raise"
    /\ returned.kind = "return" =>
           IsSuccessRecord(returned.value) \/ IsDegradedRecord(returned.value)

\* A call that failed on an ill-typed field after get_sol_price was called
\* has returned the fallback dict.
C1_Witness == Degraded(returned) /\ returned.calls.oracle = 1

\* C2: no dict the cache stores carries a warning, and a call that returns
\* the fallback dict leaves the cache as it was.
C2_NoDegradedCached ==
    [][/\ \A k \in DOMAIN hybrid_token_data_cache'.data :
             "warning" \notin DOMAIN hybrid_token_data_cache'.data[k].value
       /\ Degraded(returned') =>
             hybrid_token_data_cache' = hybrid_token_data_cache]_vars

\* A call fails while the cache stores the dict of an earlier call and
\* another call is in flight.
C2_Witness ==
    /\ Degraded(returned)
    /\ DOMAIN hybrid_token_data_cache.data # {}
    /\ \E t \in Tasks : pc[t] = "oracle"

\* The answers of the provider with zero pairs: an empty list, null, or no
\* pairs at all.
ZeroPairsBodies ==
    {b \in Bodies : /\ b.kind = "json"
                    /\ IsObj(b.data)
                    /\ \/ "pairs" \notin DOMAIN b.data.v
                       \/ b.data.v.pairs \in {Null, List(<<>>)}}

\* C3: when the calls for one key do not overlap, a call that missed the
\* cache and got zero pairs returns a dict with a non-empty warning, and a
\* call for the same address that follows at once misses the cache again
\* and sends the request to the provider.
C3_DegradedNotCached ==
    [][\A t \in Tasks :
          /\ \A b \in ZeroPairsBodies :
                JsonBody(t, b) =>
                    /\ Degraded(returned')
                    /\ returned'.value.warning # ""
                    /\ returned'.address = contract_address[t]
                    /\ returned'.logged = NoPairsFound
          /\ (/\ Degraded(returned)
              /\ returned.logged = NoPairsFound
              /\ FetchStart(t, returned.address)) =>
                    /\ pc'[t] = "http"
                    /\ calls'[t].market = 1
                    /\ returned' = NoReturn]_vars

\* A call that got zero pairs has just returned, later than time 0 and
\* with another key in the cache.
C3_Witness ==
    /\ Degraded(returned)
    /\ returned.logged = NoPairsFound
    /\ now > 0
    /\ DOMAIN hybrid_token_data_cache.data # {}

\* The call of task t for address starts in this step.
Starts(t, address) ==
    /\ pc[t] = "idle"
    /\ \/ pc'[t] = "http" /\ contract_address'[t] = address
       \/ pc'[t] = "idle" /\ returned'.kind = "return"
          /\ returned'.address = address /\ returned'.calls.market = 0

\* C4: when the calls for one key do not overlap, a call that finds the
\* key's entry alive returns the very dict the entry stores and makes no
\* upstream call, to the provider or to the price feed; that dict is the one
\* the successful call that wrote the entry returned, and it stays the
\* entry's dict for as long as the entry is alive.
C4_HitsAreIdempotent ==
    [][\A a \in Addresses :
          LET key == Lower(a)
              c == hybrid_token_data_cache
          IN /\ \A t \in Tasks :
                  (Starts(t, a) /\ Contains(c, key, now)) =>
                      /\ returned' = Return(a, c.data[key].value,
                                            [NoCalls EXCEPT !.cache_reads = 1],
                                            NoException)
                      /\ pc'[t] = "idle"
                      /\ c'.data = c.data
             /\ (returned'.kind = "return" /\ returned'.address = a
                 /\ returned'.calls.cache_writes = 1) =>
                      /\ Contains(c', key, now')
                      /\ c'.data[key].value = returned'.value
             /\ (Contains(c, key, now) /\ Contains(c', key, now')) =>
                      c'.data[key] = c.data[key]]_vars

\* A call is served from the cache one tick after the entry was written,
\* with a dict built from the price the feed sent.
C4_Witness ==
    /\ returned.kind = "return"
    /\ returned.calls.market = 0
    /\ returned.value.buy_1_sol_tokens # tokens_per_sol(SolFallback, 3)
    /\ hybrid_token_data_cache.data[Lower(returned.address)].expires < now + ttl

\* The time the entry e was written.
InsertedAt(e) == e.expires - ttl

LiveKeys(c, time) == {k \in DOMAIN c.data : ~Expired(c.data[k], time)}

Position(k) == CHOOSE i \in DOMAIN last_used : last_used[i] = k

\* The key of S whose last use is the oldest.
LeastRecentlyUsed(S) ==
    CHOOSE k \in S : \A j \in S : Position(k) <= Position(j)

\* C6: the cache never stores more than maxsize entries; a successful call
\* that writes a new key while maxsize entries are alive evicts exactly the
\* entry whose last use (hit or write) is the oldest: that key is absent
\* afterwards, the other entries are kept as they were, the new key is
\* there.
C6_EvictsLeastRecentlyUsed ==
    [][LET c == hybrid_token_data_cache
           key == Lower(returned'.address)
           live == LiveKeys(c, now)
       IN /\ Cardinality(DOMAIN c'.data) <= maxsize
          /\ (/\ returned'.kind = "return"
              /\ returned'.calls.cache_writes = 1
              /\ key \notin live
              /\ Cardinality(live) = maxsize) =>
                 LET lru == LeastRecentlyUsed(live)
                 IN /\ lru \notin DOMAIN c'.data
                    /\ ~Contains(c', lru, now')
                    /\ \A k \in live \ {lru} :
                          Contains(c', k, now') /\ c'.data[k] = c.data[k]
                    /\ Contains(c', key, now')]_vars

\* One key more than the cache holds has been written before any entry
\* could expire: a key used earlier is no longer stored.
C6_Witness ==
    /\ returned.kind = "return"
    /\ returned.calls.cache_writes = 1
    /\ now < ttl
    /\ Cardinality(DOMAIN hybrid_token_data_cache.data) = maxsize
    /\ \E i \in DOMAIN last_used :
          last_used[i] \notin DOMAIN hybrid_token_data_cache.data

\* The step just taken ended a call that built its dict from the provider's
\* answer.
Succeeds == returned'.kind = "return" /\ returned'.calls.cache_writes = 1

\* liquidity.usd of the pair p, an absent liquidity or usd counted as 0.
LiquidityUsd(p) ==
    IF "liquidity" \notin DOMAIN p.v THEN 0
    ELSE IF "usd" \notin DOMAIN p.v.liquidity.v THEN 0
    ELSE p.v.liquidity.v.usd.v

\* ps[i] has the maximum liquidity of the list ps and is the first to.
FirstMaximum(ps, i) ==
    /\ \A j \in DOMAIN ps : LiquidityUsd(ps[j]) <= LiquidityUsd(ps[i])
    /\ \A j \in 1..(i - 1) : LiquidityUsd(ps[j]) < LiquidityUsd(ps[i])

\* C7: the dict of a successful call is built from the pair of the
\* provider's list with the maximum liquidity.usd (absent counted as 0), the
\* first of the list among those that share the maximum: whatever the order
\* of the list, the dict carries that pair's venue and liquidity.
C7_SelectsMaxLiquidity ==
    [][Succeeds =>
          LET ps == data["t1"].v.pairs.v
          IN \E i \in DOMAIN ps :
                /\ FirstMaximum(ps, i)
                /\ pair["t1"] = ps[i]
                /\ returned'.value.dex = ps[i].v.dexId
                /\ returned'.value.liquidity_usd = LiquidityUsd(ps[i])]_vars

\* The provider sent three pairs, the maximum liquidity is shared by two
\* venues and is not at the head of the list, and the pair is selected.
C7_Witness ==
    /\ pc["t1"] = "oracle"
    /\ LET ps == data["t1"].v.pairs.v
       IN /\ Len(ps) = MaxPairs
          /\ \E i, j \in DOMAIN ps :
                /\ 1 < i /\ i < j
                /\ FirstMaximum(ps, i)
                /\ LiquidityUsd(ps[j]) = LiquidityUsd(ps[i])
                /\ ps[j] # ps[i]
                /\ pair["t1"] = ps[i]

\* The address of one side of a pair equals the queried one, whatever the
\* casing.
SideMatches(p, side, address) ==
    /\ side \in DOMAIN p.v
    /\ Lower(p.v[side].v.address.v) = Lower(address)

\* name, symbol and decimals of the dict r are those of the token tok.
MetadataOf(r, tok) ==
    /\ r.name = Get(tok, "name", Str("Unknown"))
    /\ r.symbol = Get(tok, "symbol", Str("???"))
    /\ r.decimals = Get(tok, "decimals", Num(9))

NumericFields ==
    {"price_usd", "price_change_h24", "liquidity_usd", "volume_h24",
     "market_cap", "fdv", "buy_1_sol_tokens"}

\* C9: every dict a call returns has every field of the success dict; a
\* degraded one has the caller's address, name "Unknown", symbol "???",
\* every numeric field 0 and a non-empty warning; a dict with a warning
\* carries no market value.
C9_EveryFieldPresent ==
    returned.kind = "return" =>
        /\ SuccessFields \subseteq DOMAIN returned.value
        /\ "warning" \in DOMAIN returned.value =>
              /\ returned.value.warning # ""
              /\ returned.value.address = returned.address
              /\ returned.value.name = Str("Unknown")
              /\ returned.value.symbol = Str("???")
              /\ \A f \in NumericFields : returned.value[f] = 0

\* C10: the address of the dict a call returns is the address as the caller
\* wrote it, also when the call is served from the cache; the key a call
\* writes is the lowercase address.
C10_AddressAsSupplied ==
    [][/\ returned'.kind = "return" =>
             returned'.value.address = returned'.address
       /\ Succeeds =>
             /\ Lower(returned'.address) \in
                    DOMAIN hybrid_token_data_cache'.data
             /\ DOMAIN hybrid_token_data_cache'.data \subseteq
                    DOMAIN hybrid_token_data_cache.data
                        \cup {Lower(returned'.address)}]_vars

\* The request of get_sol_price failed: a network error, a timeout, a
\* status other than 200, a body that does not parse, or a body without a
\* price at data/SOL/price.
FeedFails(o) ==
    \/ o.kind # "response"
    \/ o.status # 200
    \/ o.body.kind # "json"
    \/ ~SolPriceOk(o.body.data)

\* The price get_sol_price is to return for the outcome o.
ClaimedSolPrice(o) ==
    IF FeedFails(o) THEN SolFallback
    ELSE float(o.body.data.v.data.v.SOL.v.price)

\* C11: get_sol_price returns the fallback 138.0 on a network error, a
\* timeout, a non-200 response, an unparseable body or a missing field, and
\* the parsed price otherwise: the dict of the call that awaited it is built
\* from that price.
C11_SolPriceOrFallback ==
    [][\A o \in OracleOutcomes :
          (OracleResponse("t1", o) /\ Succeeds) =>
              returned'.value.buy_1_sol_tokens =
                  tokens_per_sol(ClaimedSolPrice(o),
                                 returned'.value.price_usd)]_vars

\* A call is under way.
InFlight(t) == pc[t] # "idle"

\* C12: a call makes exactly one cache read, at most one request to the
\* provider, at most one call of get_sol_price and at most one cache write;
\* get_sol_price is called and the cache is written only after a miss and a
\* response of the provider with status 200 and a non-empty list of pairs.
C12_CallBudget ==
    [][/\ returned'.kind = "return" =>
             /\ returned'.calls.cache_reads = 1
             /\ returned'.calls.market \in {0, 1}
             /\ returned'.calls.oracle \in {0, 1}
             /\ returned'.calls.cache_writes \in {0, 1}
             /\ returned'.calls.cache_writes = 1 =>
                    returned'.calls.oracle = 1
             /\ returned'.calls.oracle = 1 => returned'.calls.market = 1
             /\ returned'.logged.text \in {"DexScreener returned",
                                           "No pairs found"} =>
                    /\ returned'.calls.oracle = 0
                    /\ returned'.calls.cache_writes = 0
       /\ \A t \in Tasks :
             /\ InFlight(t)' =>
                    /\ calls'[t].cache_reads = 1
                    /\ calls'[t].market = 1
                    /\ calls'[t].oracle \in {0, 1}
                    /\ calls'[t].cache_writes = 0
             /\ \A a \in Addresses :
                    (Starts(t, a) /\ Contains(hybrid_token_data_cache,
                                              Lower(a), now)) =>
                        returned'.calls =
                            [NoCalls EXCEPT !.cache_reads = 1]
             /\ (pc[t] # "json" /\ pc'[t] = "json") =>
                    \E o \in HttpOutcomes :
                        /\ o.kind = "response" /\ o.status = 200
                        /\ HttpResponse(t, o)
             /\ calls'[t].oracle > calls[t].oracle =>
                    /\ pc[t] = "json"
                    /\ data'[t].v.pairs.t = "list"
                    /\ data'[t].v.pairs.v # <<>>]_vars

\* A call that missed, asked the provider and the price feed and wrote the
\* cache has returned while another call had asked the provider only.
C12_Witness ==
    /\ returned.kind = "return"
    /\ returned.calls = [cache_reads |-> 1, market |-> 1, oracle |-> 1,
                         cache_writes |-> 1]
    /\ \E t \in Tasks : pc[t] = "json" /\ calls[t].oracle = 0

\* C13: there is no single flight.  A caller is never held back by a call
\* under way: it can start a call for any address, a lookup that misses
\* sends its own request to the provider, and a call that completes writes
\* its own dict under its key, whether or not another call wrote the key in
\* the meantime.
C13_NoSingleFlight ==
    /\ [](\A t \in Tasks, a \in Addresses :
             pc[t] = "idle" => ENABLED FetchStart(t, a))
    /\ [][\A t \in Tasks :
             /\ \A a \in Addresses :
                   (Starts(t, a) /\ ~Contains(hybrid_token_data_cache,
                                              Lower(a), now)) =>
                       /\ pc'[t] = "http"
                       /\ calls'[t].market = 1
             /\ (pc[t] = "oracle" /\ pc'[t] = "idle"
                 /\ ResultOk(pair[t], token_info[t])) =>
                       /\ returned'.calls.market = 1
                       /\ returned'.calls.cache_writes = 1
                       /\ hybrid_token_data_cache'.data[
                              Lower(contract_address[t])] =
                              [value |-> returned'.value,
                               expires |-> now + ttl]]_vars

\* Two calls for one key missed the cold cache and asked the provider; one
\* has written the key, the entry is alive, and the other is about to write
\* the key again.
C13_Witness ==
    \E t \in Tasks :
        /\ pc[t] = "oracle"
        /\ calls[t].market = 1
        /\ ResultOk(pair[t], token_info[t])
        /\ Contains(hybrid_token_data_cache, Lower(contract_address[t]), now)
        /\ hybrid_token_data_cache.data[Lower(contract_address[t])].value
               .address # contract_address[t]

\* buy is ref / price rounded to 4 decimal places: no multiple of 0.0001
\* is nearer (prices in hundredths, buy in ten-thousandths).
IsRounded(buy, ref, price) ==
    LET diff == ref * 10000 - buy * price
    IN 2 * (IF diff < 0 THEN -diff ELSE diff) <= price

\* buy_1_sol_tokens of the dict r is derived from the reference price ref.
BuyMatches(r, ref) ==
    /\ r.price_usd > 0 => IsRounded(r.buy_1_sol_tokens, ref, r.price_usd)
    /\ r.price_usd = 0 => r.buy_1_sol_tokens = 0
    /\ (ref = 15000 /\ r.price_usd = 5) => r.buy_1_sol_tokens = 30000000

\* C14: in every success dict buy_1_sol_tokens is the price get_sol_price
\* returned to the call divided by price_usd and rounded to 4 places when
\* price_usd > 0 (150 and 0.05 give 3000.0), and 0 when price_usd is 0;
\* price_usd is never negative.
C14_DerivedMetric ==
    [][\A o \in OracleOutcomes :
          (OracleResponse("t1", o) /\ Succeeds) =>
              /\ BuyMatches(returned'.value, get_sol_price(o))
              /\ returned'.value.price_usd >= 0]_vars

\* C15: when the provider answers with well-formed pairs and the request
\* of the price feed fails, the call returns a success dict without warning
\* whose buy_1_sol_tokens is computed from the fallback price 138.0; the
\* dict is written to the cache and, the calls for one key not overlapping,
\* served to later callers while the entry is alive.
C15_FeedFailureTolerated ==
    [][\A t \in Tasks :
          /\ (pc[t] = "oracle" /\ pc'[t] = "idle"
              /\ ResultOk(pair[t], token_info[t])) =>
                 \A o \in OracleOutcomes :
                    (FeedFails(o) /\ OracleResponse(t, o)) =>
                        /\ Succeeds
                        /\ "warning" \notin DOMAIN returned'.value
                        /\ returned'.value.buy_1_sol_tokens =
                               tokens_per_sol(SolFallback,
                                              returned'.value.price_usd)
                        /\ Contains(hybrid_token_data_cache',
                                    Lower(contract_address[t]), now')
                        /\ hybrid_token_data_cache'.data[
                               Lower(contract_address[t])].value =
                               returned'.value
          /\ \A a \in Addresses :
                LET key == Lower(a)
                    c == hybrid_token_data_cache
                IN /\ (Starts(t, a) /\ Contains(c, key, now)) =>
                          returned'.value = c.data[key].value
                   /\ (Contains(c, key, now) /\ Contains(c', key, now')) =>
                          c'.data[key].value = c.data[key].value]_vars

Timeout == [kind |-> "timeout"]

TransportError == [kind |-> "error"]

\* C16: every call that is under way eventually returns, whatever the other
\* calls do, given that each upstream request responds, fails or times out
\* after a bounded wait; a timeout ends a request as a transport error
\* does: the fallback dict for the provider, the fallback price for the
\* price feed.
C16_EveryCallReturns ==
    /\ \A t \in Tasks : InFlight(t) ~> ~InFlight(t)
    /\ [][\A t \in Tasks :
             /\ (pc[t] = "http" /\ HttpResponse(t, Timeout)) =>
                    /\ Degraded(returned')
                    /\ HttpResponse(t, TransportError)
             /\ (pc[t] = "oracle" /\ OracleResponse(t, Timeout)) =>
                    /\ returned'.kind = "return"
                    /\ OracleResponse(t, TransportError)]_vars

\* A request to the provider timed out and the call returned the fallback
\* dict while the other call was still waiting for the price feed.
C16_Witness ==
    /\ Degraded(returned)
    /\ returned.calls.market = 1
    /\ returned.calls.oracle = 0
    /\ returned.logged = OtherException
    /\ \E t \in Tasks : pc[t] = "oracle"
    /\ hybrid_token_data_cache = EmptyCache

\* The prices get_sol_price returns for the outcomes of its request.
SolPrices == {get_sol_price(o) : o \in OracleOutcomes}

\* The dict a call for address returns when it runs alone, misses, the
\* provider answers with the body d and get_sol_price returns sol_price.
RecordAlone(address, d, sol_price) ==
    Result(address, BestPair(d), TokenInfo(BestPair(d), address), sol_price)

\* C17: calls for distinct keys are independent.  While the cache is below
\* capacity no step of a call changes or removes the live entry of another
\* key; a lookup hits or misses on the entry of its own key alone; and what
\* a call returns is what it returns alone: the entry of its key on a hit,
\* the dict built from its address and its upstream responses on a miss,
\* the fallback dict of its address on a failure.
C17_DistinctKeysIndependent ==
    [][LET c == hybrid_token_data_cache
           live == LiveKeys(c, now)
       IN /\ \A k \in live :
                \/ Succeeds /\ Lower(returned'.address) = k
                \/ /\ Succeeds
                   /\ Lower(returned'.address) \notin live
                   /\ Cardinality(live) >= maxsize
                \/ /\ k \in DOMAIN hybrid_token_data_cache'.data
                   /\ hybrid_token_data_cache'.data[k] = c.data[k]
          /\ \A t \in Tasks :
                /\ \A a \in Addresses :
                      Starts(t, a) =>
                          IF Contains(c, Lower(a), now)
                          THEN returned'.value = c.data[Lower(a)].value
                          ELSE pc'[t] = "http"
                /\ (InFlight(t) /\ ~InFlight(t)') =>
                      IF Succeeds
                      THEN \E sol_price \in SolPrices :
                              returned'.value =
                                  RecordAlone(contract_address[t], data[t],
                                              sol_price)
                      ELSE returned'.value = Fallback(contract_address[t])]_vars

\* A call has written its key while the entry of another key was alive and
\* a call for that other key was under way.
C17_Witness ==
    /\ returned.kind = "return"
    /\ returned.calls.cache_writes = 1
    /\ \E k \in LiveKeys(hybrid_token_data_cache, now) :
          /\ k # Lower(returned.address)
          /\ \E t \in Tasks : InFlight(t) /\ Lower(contract_address[t]) = k

\* C18: every entry of the cache, under key k, is a success dict whose
\* address lowercases to k; an entry appears or changes only in the step in
\* which a call for that key returns that very dict; and a call that
\* succeeds leaves its dict under its key with the ttl counted from its
\* write, also when an overlapping call for the key wrote before it.
C18_EntriesAreOwnRecords ==
    [][LET c == hybrid_token_data_cache
           d == hybrid_token_data_cache'
       IN /\ \A k \in DOMAIN d.data :
                /\ IsSuccessRecord(d.data[k].value)
                /\ Lower(d.data[k].value.address) = k
                /\ (k \notin DOMAIN c.data \/ d.data[k] # c.data[k]) =>
                       /\ Succeeds
                       /\ Lower(returned'.address) = k
          /\ Succeeds =>
                d.data[Lower(returned'.address)] =
                    [value |-> returned'.value, expires |-> now + ttl]]_vars

\* Of two overlapping calls for one key in two casings, one has just
\* written the key, later than time 0, and the entry is its dict; the other
\* has its own dict to write.
C18_Witness ==
    /\ returned.kind = "return"
    /\ returned.calls.cache_writes = 1
    /\ now > 0
    /\ hybrid_token_data_cache.data[Lower(returned.address)] =
           [value |-> returned.value, expires |-> now + ttl]
    /\ \E t \in Tasks :
          /\ pc[t] = "oracle"
          /\ ResultOk(pair[t], token_info[t])
          /\ Lower(contract_address[t]) = Lower(returned.address)
          /\ contract_address[t] # returned.address

====
